---- MODULE Spec2Model ----
(***************************************************************************)
(* Model of extract_procurement_fields (src/extractor.py) and of the loop  *)
(* of main() that calls it once per image (src/main.py).                   *)
(*                                                                         *)
(* A text is a sequence of characters.  An ASCII character is the string   *)
(* holding it; any other character is the string "U+hhhh" of its code      *)
(* point, named by a definition below.  The regular expressions of the     *)
(* source are matched as Python's re matches them: leftmost start,         *)
(* greedy quantifiers, alternatives in order, backtracking.                *)
(***************************************************************************)
EXTENDS Integers, Sequences, FiniteSets, TLC

zh_mi    == "U+7C73"  \* metre
zh_wa    == "U+74E6"  \* watt
zh_hao   == "U+6BEB"  \* milli (first character of millimetre)
zh_yuan  == "U+5143"  \* yuan
zh_kuai  == "U+5757"  \* kuai
zh_ge    == "U+4E2A"  \* piece
zh_tiao  == "U+6761"  \* strip
zh_tao   == "U+5957"  \* set
zh_xiang == "U+7BB1"  \* box
zh_jian  == "U+4EF6"  \* item
zh_zhi   == "U+53EA"  \* individual
zh_gen   == "U+6839"  \* root
zh_juan  == "U+5377"  \* roll
zh_shu   == "U+6570"  \* quantity, first character
zh_liang == "U+91CF"  \* quantity, second character
zh_xing  == "U+578B"  \* model, first character
zh_hao4  == "U+53F7"  \* model, second character
zh_gui   == "U+89C4"  \* specification, first character
zh_ge2   == "U+683C"  \* specification / price, second character
zh_chi   == "U+5C3A"  \* size, first character
zh_cun   == "U+5BF8"  \* size, second character
zh_jia   == "U+4EF7"  \* price, first character
zh_bian  == "U+4FBF"  \* cheap, first character
zh_yi    == "U+5B9C"  \* cheap, second character
zh_yao   == "U+8981"  \* want
zh_bu    == "U+4E0D"  \* not
zh_kan   == "U+770B"  \* look
zh_ke    == "U+53EF"  \* can, first character
zh_yi3   == "U+4EE5"  \* can, second character
zh_ma    == "U+5417"  \* question particle
zh_xing2 == "U+884C"  \* ok
zh_zen   == "U+600E"  \* how, first character
zh_me    == "U+4E48"  \* how, second character
zh_yang  == "U+6837"  \* how, third character
zh_bao   == "U+62A5"  \* quote
zh_deng  == "U+706F"  \* lamp (a word character no pattern names)
fw_yen   == "U+FFE5"  \* full-width yen sign
fw_colon == "U+FF1A"  \* full-width colon
fw_comma == "U+FF0C"  \* full-width comma
em_dash  == "U+2014"  \* em dash

\* Python None and an Optional value holding v.
None == <<>>
Some(v) == <<v>>

Digits == {"0", "1", "2", "3", "4", "5", "6", "7", "8", "9"}

Latin == {"R", "M", "B", "U", "S", "D", "W", "C", "m", "c", "w", "u", "s", "d",
          "a", "x"}

Han == {zh_mi, zh_wa, zh_hao, zh_yuan, zh_kuai, zh_ge, zh_tiao, zh_tao,
        zh_xiang, zh_jian, zh_zhi, zh_gen, zh_juan, zh_shu, zh_liang, zh_xing,
        zh_hao4, zh_gui, zh_ge2, zh_chi, zh_cun, zh_jia, zh_bian, zh_yi,
        zh_yao, zh_bu, zh_kan, zh_ke, zh_yi3, zh_ma, zh_xing2, zh_zen, zh_me,
        zh_yang, zh_bao, zh_deng}

\* \d of re
IsDigit(c) == c \in Digits

\* \w of re on str: letters of any script, digits, underscore
IsWord(c) == c \in Digits \cup Latin \cup Han \cup {"_"}

\* \s of re, and the characters str.strip() removes
IsSpace(c) == c \in {" ", "\t", "\n", "\r"}

\* the line boundaries of str.splitlines()
IsLineBreak(c) == c \in {"\n", "\r"}

\* str.upper(), character by character
Upper(c) ==
  CASE c = "u" -> "U" [] c = "s" -> "S" [] c = "d" -> "D" [] c = "m" -> "M"
    [] c = "c" -> "C" [] c = "w" -> "W" [] c = "a" -> "A" [] c = "x" -> "X"
    [] OTHER -> c

UpperText(s) == [i \in 1..Len(s) |-> Upper(s[i])]

Min(S) == CHOOSE x \in S : \A y \in S : x <= y

(* str.strip(), str.splitlines(), " ".join *)

RECURSIVE LStrip(_)
LStrip(s) == IF s # <<>> /\ IsSpace(Head(s)) THEN LStrip(Tail(s)) ELSE s

RECURSIVE RStrip(_)
RStrip(s) ==
  IF s # <<>> /\ IsSpace(s[Len(s)]) THEN RStrip(SubSeq(s, 1, Len(s) - 1)) ELSE s

Strip(s) == RStrip(LStrip(s))

\* the pieces of s between line boundaries; a boundary that ends the text
\* starts no further piece
RECURSIVE SplitLines(_)

\* the position of the first line boundary of s from p on, 0 if there is none
RECURSIVE FirstBreak(_, _)
FirstBreak(s, p) ==
  IF p > Len(s) THEN 0 ELSE IF IsLineBreak(s[p]) THEN p ELSE FirstBreak(s, p + 1)

\* the position after the boundary at b: \r\n is one boundary
AfterBreak(s, b) ==
  IF s[b] = "\r" /\ b < Len(s) /\ s[b + 1] = "\n" THEN b + 2 ELSE b + 1

\* s split at its first boundary b, the rest split further
SplitAt(s, b) ==
  IF b = 0 THEN <<s>>
  ELSE <<SubSeq(s, 1, b - 1)>> \o SplitLines(SubSeq(s, AfterBreak(s, b), Len(s)))

SplitLines(s) == IF s = <<>> THEN <<>> ELSE SplitAt(s, FirstBreak(s, 1))

\* [ln.strip() for ln in text.splitlines() if ln.strip()]
\* the stripped line, if anything is left of it
IfNonEmpty(h) == IF h = <<>> THEN <<>> ELSE <<h>>

RECURSIVE StripNonEmpty(_)
StripNonEmpty(ls) ==
  IF ls = <<>> THEN <<>>
  ELSE IfNonEmpty(Strip(Head(ls))) \o StripNonEmpty(Tail(ls))

NormalizeLines(text) == StripNonEmpty(SplitLines(text))

RECURSIVE JoinSpace(_)
JoinSpace(ls) ==
  IF ls = <<>> THEN <<>>
  ELSE IF Len(ls) = 1 THEN Head(ls)
  ELSE Head(ls) \o <<" ">> \o JoinSpace(Tail(ls))

(* _to_float *)

DigitVal(c) ==
  CASE c = "0" -> 0 [] c = "1" -> 1 [] c = "2" -> 2 [] c = "3" -> 3
    [] c = "4" -> 4 [] c = "5" -> 5 [] c = "6" -> 6 [] c = "7" -> 7
    [] c = "8" -> 8 [] c = "9" -> 9

RECURSIVE IntOf(_)
IntOf(ds) ==
  IF ds = <<>> THEN 0 ELSE 10 * IntOf(SubSeq(ds, 1, Len(ds) - 1)) + DigitVal(ds[Len(ds)])

AllDigits(s) == s # <<>> /\ \A i \in 1..Len(s) : IsDigit(s[i])

\* a number m / 10^e in lowest terms of e
RECURSIVE Reduce(_, _)
Reduce(m, e) == IF e > 0 /\ m % 10 = 0 THEN Reduce(m \div 10, e - 1) ELSE <<m, e>>

\* float(s) for the texts a capture group can hold; None where float raises
Dots(s) == {i \in 1..Len(s) : s[i] = "."}

\* float of an integer part and a fraction part around one point
FloatOfParts(ip, fp) ==
  IF (ip = <<>> \/ AllDigits(ip)) /\ (fp = <<>> \/ AllDigits(fp))
     /\ ~(ip = <<>> /\ fp = <<>>)
  THEN Some(Reduce(IntOf(ip \o fp), Len(fp)))
  ELSE None

ToFloat(s) ==
  IF AllDigits(s) THEN Some(<<IntOf(s), 0>>)
  ELSE IF Cardinality(Dots(s)) = 1
  THEN FloatOfParts(SubSeq(s, 1, Min(Dots(s)) - 1),
                    SubSeq(s, Min(Dots(s)) + 1, Len(s)))
  ELSE None

(* The regular expressions.  A position is an index into the line; the     *)
(* position Len(s) + 1 is the end of the line.                             *)

IsWordAt(s, p) == p >= 1 /\ p <= Len(s) /\ IsWord(s[p])

\* \b between the characters at p - 1 and p
WordBoundary(s, p) == IsWordAt(s, p - 1) # IsWordAt(s, p)

\* the literal w at p
LitAt(s, p, w) ==
  p >= 1 /\ p + Len(w) - 1 <= Len(s) /\ \A k \in 1..Len(w) : s[p + k - 1] = w[k]

\* the position after the longest run of digits (\d+, greedy) from p
RECURSIVE DigitsEnd(_, _)
DigitsEnd(s, p) == IF p <= Len(s) /\ IsDigit(s[p]) THEN DigitsEnd(s, p + 1) ELSE p

\* the position after the longest run of white space (\s*, greedy) from p
RECURSIVE SkipSpace(_, _)
SkipSpace(s, p) == IF p <= Len(s) /\ IsSpace(s[p]) THEN SkipSpace(s, p + 1) ELSE p

\* hi, hi - 1, ..., lo
Desc(hi, lo) == [k \in 1..(hi - lo + 1) |-> hi - k + 1]

\* the end of (?:\.\d+)? read greedily after the digits that end at d
FracEnd(s, d) == IF d <= Len(s) /\ s[d] = "." THEN DigitsEnd(s, d + 1) ELSE d

\* the ends of a number from p whose digits end at d and whose fraction ends at f
NumEndsOf(p, d, f) ==
  IF d = p THEN <<>>
  ELSE (IF f > d + 1 THEN Desc(f, d + 2) ELSE <<>>) \o Desc(d, p + 1)

\* \d+(?:\.\d+)? from p: the positions where it can end, in the order the
\* backtracking tries them: the longest fraction first, then shorter ones,
\* then no fraction with the longest integer part, then shorter ones
NumEnds(s, p) == NumEndsOf(p, DigitsEnd(s, p), FracEnd(s, DigitsEnd(s, p)))

\* (u1|u2|...)\b at p: the position after the first alternative that fits, 0 if none
RECURSIVE UnitEnd(_, _, _)
UnitEnd(s, p, units) ==
  IF units = <<>> THEN 0
  ELSE IF LitAt(s, p, Head(units)) /\ WordBoundary(s, p + Len(Head(units)))
  THEN p + Len(Head(units))
  ELSE UnitEnd(s, p, Tail(units))

NoMatch == [from |-> 0, to |-> 0, stop |-> 0]

\* \s*(units)\b after a number from p that ends at one of ends, tried in order.
\* No unit starts with white space, so only the whole run of \s* is followed by one.
RECURSIVE TryEnds(_, _, _, _)
TryEnds(s, p, units, ends) ==
  IF ends = <<>> THEN NoMatch
  ELSE IF UnitEnd(s, SkipSpace(s, Head(ends)), units) # 0
  THEN [from |-> p, to |-> Head(ends),
        stop |-> UnitEnd(s, SkipSpace(s, Head(ends)), units)]
  ELSE TryEnds(s, p, units, Tail(ends))

\* NUM\s*(units)\b at p; from..to-1 is the number, stop the end of the match
MatchNumUnit(s, p, units) == TryEnds(s, p, units, NumEnds(s, p))

IsColon(c) == c \in {":", fw_colon}

\* the first of ends, in order, that is at a word boundary; 0 if none is
RECURSIVE FirstBoundary(_, _)
FirstBoundary(s, ends) ==
  IF ends = <<>> THEN 0
  ELSE IF WordBoundary(s, Head(ends)) THEN Head(ends)
  ELSE FirstBoundary(s, Tail(ends))

\* the number from b that ends at e, none for e = 0
NumTo(b, e) == IF e = 0 THEN NoMatch ELSE [from |-> b, to |-> e, stop |-> e]

\* NUM\b at b
NumAt(s, b) == NumTo(b, FirstBoundary(s, NumEnds(s, b)))

\* [:...]?\s* at a.  A colon left unread cannot start NUM or \S+ any better
\* than one read, so it is read whenever it is there.
AfterColon(s, a, colon) ==
  IF colon /\ a <= Len(s) /\ IsColon(s[a]) THEN SkipSpace(s, a + 1) ELSE a

\* PRE\s*NUM\b (colon FALSE) or PRE\s*[:...]?\s*NUM\b (colon TRUE) at p
MatchPreNum(s, p, pre, colon) ==
  IF ~LitAt(s, p, pre) THEN NoMatch
  ELSE NumAt(s, AfterColon(s, SkipSpace(s, p + Len(pre)), colon))

NonSpaceAt(s, p) == p >= 1 /\ p <= Len(s) /\ ~IsSpace(s[p])

\* (l1|l2|l3) at p: the position after the alternative that fits, 0 if none
RECURSIVE LabelEnd(_, _, _)
LabelEnd(s, p, labels) ==
  IF labels = <<>> THEN 0
  ELSE IF LitAt(s, p, Head(labels)) THEN p + Len(Head(labels))
  ELSE LabelEnd(s, p, Tail(labels))

\* [:...]?\s*\S+ at a, after a label at p and its white space: either the
\* colon is read and a non-space character follows the white space after it,
\* or it is not read and \S+ starts at a
LabelRest(s, p, a) ==
  IF (a <= Len(s) /\ IsColon(s[a]) /\ NonSpaceAt(s, SkipSpace(s, a + 1)))
     \/ NonSpaceAt(s, a)
  THEN [from |-> p, to |-> a, stop |-> a + 1]
  ELSE NoMatch

\* (l1|l2|l3)\s*[:...]?\s*\S+ at p
MatchLabel(s, p, labels) ==
  IF LabelEnd(s, p, labels) = 0 THEN NoMatch
  ELSE LabelRest(s, p, SkipSpace(s, LabelEnd(s, p, labels)))

\* a pattern of the source, as data
NumUnit(units) == [kind |-> "num_unit", words |-> units, colon |-> FALSE]
PreNum(pre, colon) == [kind |-> "pre_num", words |-> <<pre>>, colon |-> colon]
Label(labels) == [kind |-> "label", words |-> labels, colon |-> TRUE]

MatchAt(pat, s, p) ==
  CASE pat.kind = "num_unit" -> MatchNumUnit(s, p, pat.words)
    [] pat.kind = "pre_num" -> MatchPreNum(s, p, pat.words[1], pat.colon)
    [] pat.kind = "label" -> MatchLabel(s, p, pat.words)

\* re.search(pat, s): the match at the leftmost position that has one
RECURSIVE SearchFrom(_, _, _)
SearchFrom(pat, s, p) ==
  IF p > Len(s) THEN NoMatch
  ELSE IF MatchAt(pat, s, p) # NoMatch THEN MatchAt(pat, s, p)
  ELSE SearchFrom(pat, s, p + 1)

Search(pat, s) == SearchFrom(pat, s, 1)

\* m.group("price"), m.group("qty")
Group(s, m) == SubSeq(s, m.from, m.to - 1)

(* extract_procurement_fields *)

price_patterns ==
  << NumUnit(<< <<zh_yuan>>, <<zh_kuai>> >>),
     PreNum(<<fw_yen>>, FALSE),
     PreNum(<<"R", "M", "B">>, FALSE) >>

\* spec_patterns with a countable unit among the length units
spec_patterns_counting ==
  << NumUnit(<< <<zh_mi>>, <<"m">>, <<"M">>, <<zh_ge>> >>),
     NumUnit(<< <<"c", "m">>, <<"C", "M">>, <<zh_hao, zh_mi>>, <<"m", "m">>, <<"M", "M">> >>),
     NumUnit(<< <<zh_wa>>, <<"W">>, <<"w">> >>),
     Label(<< <<zh_xing, zh_hao4>>, <<zh_gui, zh_ge2>>, <<zh_chi, zh_cun>> >>) >>

\* spec_patterns whose first pattern leaves out the lower-case m
spec_patterns_no_m ==
  << NumUnit(<< <<zh_mi>>, <<"M">> >>),
     NumUnit(<< <<"c", "m">>, <<"C", "M">>, <<zh_hao, zh_mi>>, <<"m", "m">>, <<"M", "M">> >>),
     NumUnit(<< <<zh_wa>>, <<"W">>, <<"w">> >>),
     Label(<< <<zh_xing, zh_hao4>>, <<zh_gui, zh_ge2>>, <<zh_chi, zh_cun>> >>) >>

spec_patterns ==
  << NumUnit(<< <<zh_mi>>, <<"m">>, <<"M">> >>),
     NumUnit(<< <<"c", "m">>, <<"C", "M">>, <<zh_hao, zh_mi>>, <<"m", "m">>, <<"M", "M">> >>),
     NumUnit(<< <<zh_wa>>, <<"W">>, <<"w">> >>),
     Label(<< <<zh_xing, zh_hao4>>, <<zh_gui, zh_ge2>>, <<zh_chi, zh_cun>> >>) >>

\* the pattern of the first-line fallback, and of the re.sub of the item name
first_line_pattern ==
  NumUnit(<< <<zh_mi>>, <<"m">>, <<"c", "m">>, <<"m", "m">>, <<zh_wa>>, <<"W">> >>)

qty_patterns ==
  << NumUnit(<< <<zh_ge>>, <<zh_tiao>>, <<zh_tao>>, <<zh_xiang>>, <<zh_jian>>,
                <<zh_zhi>>, <<zh_gen>>, <<zh_juan>> >>),
     PreNum(<<zh_shu, zh_liang>>, TRUE) >>

noisy_words ==
  << <<zh_jia, zh_ge2>>, <<zh_bian, zh_yi>>, <<zh_yao, zh_bu, zh_yao>>,
     <<zh_kan, zh_kan>>, <<zh_ke, zh_yi3, zh_ma>>, <<zh_xing2, zh_bu, zh_xing2>>,
     <<zh_zen, zh_me, zh_yang>>, <<zh_bao, zh_ge, zh_jia>> >>

strip_chars == {" ", ",", fw_comma, ":", fw_colon, "-", em_dash, "/"}

\* confidence is counted in thousandths
BASE_CONFIDENCE == 500
PRICE_BONUS == 200
SPEC_BONUS == 150
\* the quantity bonus mistaken for the specification bonus
QtyBonusOfSpec == SPEC_BONUS
QTY_BONUS == 100
NAME_FALLBACK_BONUS == 50
\* a bonus for a cleaned name below the one for the fallback
NameBonusTooSmall == NAME_FALLBACK_BONUS - 30
NAME_BONUS == 150

\* the patterns of pats that match somewhere in ln, by index
Matching(pats, ln) == {k \in 1..Len(pats) : Search(pats[k], ln) # NoMatch}

\* LineNumber with the last pattern that matches deciding
RECURSIVE LineNumberLastPattern(_, _)
LineNumberLastPattern(pats, ln) ==
  IF pats = <<>> THEN None
  ELSE IF Search(pats[Len(pats)], ln) # NoMatch
  THEN ToFloat(Group(ln, Search(pats[Len(pats)], ln)))
  ELSE LineNumberLastPattern(SubSeq(pats, 1, Len(pats) - 1), ln)

\* for pat in pats: m = re.search(pat, ln); if m: found = _to_float(group); break
RECURSIVE LineNumber(_, _)
LineNumber(pats, ln) ==
  IF pats = <<>> THEN None
  ELSE IF Search(Head(pats), ln) # NoMatch
  THEN ToFloat(Group(ln, Search(Head(pats), ln)))
  ELSE LineNumber(Tail(pats), ln)

\* for ln in lines: ...; if found is not None: break
RECURSIVE ScanNumber(_, _)
ScanNumber(pats, lns) ==
  IF lns = <<>> THEN None
  ELSE IF LineNumber(pats, Head(lns)) # None THEN LineNumber(pats, Head(lns))
  ELSE ScanNumber(pats, Tail(lns))

FindPrice(lns) == ScanNumber(price_patterns, lns)

FindQty(lns) == ScanNumber(qty_patterns, lns)

\* any(re.search(pat, ln) for pat in spec_patterns)
SpecLine(ln) == Matching(spec_patterns, ln) # {}

\* the first line that any specification pattern matches
RECURSIVE FindSpec(_)
FindSpec(lns) ==
  IF lns = <<>> THEN None
  ELSE IF SpecLine(Head(lns)) THEN Some(Head(lns)) ELSE FindSpec(Tail(lns))

\* the first-line check made when no line matched
FallbackSpec(lns) ==
  IF Len(lns) >= 1 /\ Search(first_line_pattern, lns[1]) # NoMatch
  THEN Some(lns[1]) ELSE None

\* w in s
Contains(s, w) == \E i \in 1..Len(s) : LitAt(s, i, w)

\* IsUSD without the upper()
IsUSDCaseSensitive(text) == Contains(text, <<"$">>) \/ Contains(text, <<"U", "S", "D">>)

\* "$" in text or "USD" in text.upper()
IsUSD(text) == Contains(text, <<"$">>) \/ Contains(UpperText(text), <<"U", "S", "D">>)

\* s.replace(w, ""): the occurrences of w found left to right, none overlapping
RECURSIVE Remove(_, _)
Remove(s, w) ==
  IF s = <<>> THEN <<>>
  ELSE IF LitAt(s, 1, w) THEN Remove(SubSeq(s, Len(w) + 1, Len(s)), w)
  ELSE <<Head(s)>> \o Remove(Tail(s), w)

\* for w in noisy_words: cleaned = cleaned.replace(w, "")
RECURSIVE RemoveAll(_, _)
RemoveAll(s, ws) == IF ws = <<>> THEN s ELSE RemoveAll(Remove(s, Head(ws)), Tail(ws))

\* re.sub(first_line_pattern, "", s), from position p on
RECURSIVE SubFrom(_, _)
SubFrom(s, p) ==
  IF p > Len(s) THEN <<>>
  ELSE IF MatchAt(first_line_pattern, s, p) # NoMatch
  THEN SubFrom(s, MatchAt(first_line_pattern, s, p).stop)
  ELSE <<s[p]>> \o SubFrom(s, p + 1)

RECURSIVE LStripChars(_)
LStripChars(s) ==
  IF s # <<>> /\ Head(s) \in strip_chars THEN LStripChars(Tail(s)) ELSE s

RECURSIVE RStripChars(_)
RStripChars(s) ==
  IF s # <<>> /\ s[Len(s)] \in strip_chars
  THEN RStripChars(SubSeq(s, 1, Len(s) - 1)) ELSE s

\* the cleaned first line
Cleaned(first) == RStripChars(LStripChars(SubFrom(RemoveAll(first, noisy_words), 1)))

\* round(x, 2) of a count of thousandths, halves to the even hundredth
Round2(x) ==
  LET q == x \div 10
      r == x % 10
  IN  IF r > 5 \/ (r = 5 /\ q % 2 = 1) THEN (q + 1) * 10 ELSE q * 10

\* Clamp01 without the min(1.0, ...)
Clamp01NoCeiling(x) == IF Round2(x) > 0 THEN Round2(x) ELSE 0

\* max(0.0, min(1.0, round(x, 2)))
Clamp01(x) ==
  LET r == Round2(x)
      lo == IF r < 1000 THEN r ELSE 1000
  IN  IF lo > 0 THEN lo ELSE 0

DefaultResult(text, lns) ==
  [item_name |-> None, specification |-> None, quantity |-> None,
   unit_price |-> None, currency |-> "CNY",
   source_text |-> IF lns # <<>> THEN JoinSpace(lns) ELSE text,
   confidence |-> BASE_CONFIDENCE]

\* EmptyResult that leaves the base confidence in place
EmptyResultKeepsBase(text, lns) == DefaultResult(text, lns)

\* the record returned when no line survives
EmptyResult(text, lns) == [DefaultResult(text, lns) EXCEPT !.confidence = 0]

\* the last line taken for the first
LastOf(lns) == lns[Len(lns)]

\* first = lines[0]
FirstOf(lns) == lns[1]

\* the optional fields of a record that are set
Populated(r) ==
  {f \in {"item_name", "specification", "quantity", "unit_price"} : r[f] # None}

\* the item name is the cleaned first line, not the fallback
NameCleaned(lns) == lns # <<>> /\ Cleaned(FirstOf(lns)) # <<>>

VARIABLES
  raw_text,    \* the argument of extract_procurement_fields
  text,        \* its local text
  lines,       \* its local lines
  result,      \* its local result, the record returned
  found_spec,  \* its local found_spec
  ran,         \* the extractor passes run so far in this call, in order
  prev,        \* of the record main() appended last: the fields set, whether
               \* the name was cleaned, the confidence (None before the first)
  pc           \* the place the call has reached

vars == <<raw_text, text, lines, result, found_spec, ran, prev, pc>>

(* The inputs: every text of at most n words of a vocabulary. *)

RECURSIVE Flatten(_)
Flatten(ws) == IF ws = <<>> THEN <<>> ELSE Head(ws) \o Flatten(Tail(ws))

Texts(vocab, n) == {Flatten(ws) : ws \in UNION {[1..k -> vocab] : k \in 0..n}}

\* the longest input, in words, over a vocabulary of six words
MaxWordsDeep == 5

\* the longest input, in words, over a vocabulary of eight words
MaxWords == 4

\* the longest input, in words, of SpecLoop
MaxWordsLoop == 3

w_label == <<zh_gui, zh_ge2>>
w_noise == <<zh_jia, zh_ge2>>
w_count == <<zh_shu, zh_liang>>

\* every extractor can succeed, alone and together, and the name can fall back
Vocabulary == { <<"3">>, <<"\n">>, <<fw_yen>>, <<zh_ge>>, w_label, w_noise }

\* the three price patterns, two numbers and two lines
PriceVocabulary ==
  { <<"3">>, <<"0">>, <<"\n">>, <<zh_yuan>>, <<fw_yen>>, <<"R", "M", "B">> }

CurrencyVocabulary ==
  { <<"$">>, <<"U">>, <<"S">>, <<"D">>, <<"s">>, <<"\n">>, <<fw_yen>>, <<"3">> }

QtyVocabulary ==
  { <<"3">>, <<".">>, <<" ">>, <<"\n">>, <<zh_ge>>, <<zh_mi>>, w_count, <<fw_colon>> }

\* two length units, a label, a countable unit and two lines
SpecVocabulary == { <<"3">>, <<"\n">>, <<zh_mi>>, <<"m">>, <<zh_ge>>, w_label }

NameVocabulary ==
  { <<"3">>, <<" ">>, <<"\n">>, <<zh_mi>>, <<",">>, <<zh_deng>>, w_noise,
    <<zh_jia>> }

\* phrases: a quantity, a price, a length unit that makes the number before
\* it a specification, a filler line
LoopVocabulary ==
  { <<"3", zh_ge>>, <<fw_yen, "3">>, <<" ", zh_mi>>, w_noise \o <<"\n">> }

NoResult == DefaultResult(<<>>, <<>>)

InitOver(inputs) ==
  /\ raw_text \in inputs
  /\ text = <<>>
  /\ lines = <<>>
  /\ result = NoResult
  /\ found_spec = None
  /\ ran = <<>>
  /\ prev = None
  /\ pc = "start"

Init == InitOver(Texts(Vocabulary, MaxWordsDeep))

\* lines 18-36: strip, split, the default record, the return on no lines
Normalize ==
  /\ pc = "start"
  /\ text' = Strip(raw_text)
  /\ lines' = NormalizeLines(text')
  /\ result' = IF lines' = <<>> THEN EmptyResult(text', lines')
               ELSE DefaultResult(text', lines')
  /\ pc' = IF lines' = <<>> THEN "done" ELSE "price"
  /\ UNCHANGED <<raw_text, found_spec, ran, prev>>

\* lines 42-60
PricePass ==
  /\ pc = "price"
  /\ \E found_price \in {FindPrice(lines)} :
         result' = IF found_price # None
                   THEN [result EXCEPT !.unit_price = found_price,
                                       !.confidence = @ + PRICE_BONUS]
                   ELSE result
  /\ ran' = Append(ran, "price")
  /\ pc' = "currency"
  /\ UNCHANGED <<raw_text, text, lines, found_spec, prev>>

\* lines 62-64
CurrencyPass ==
  /\ pc = "currency"
  /\ result' = IF IsUSD(text) THEN [result EXCEPT !.currency = "USD"] ELSE result
  /\ ran' = Append(ran, "currency")
  /\ pc' = "spec"
  /\ UNCHANGED <<raw_text, text, lines, found_spec, prev>>

\* lines 71-83
SpecScan ==
  /\ pc = "spec"
  /\ found_spec' = FindSpec(lines)
  /\ ran' = Append(ran, "spec")
  /\ pc' = "spec_fallback"
  /\ UNCHANGED <<raw_text, text, lines, result, prev>>

\* lines 85-94
SpecFallback ==
  /\ pc = "spec_fallback"
  /\ found_spec' = IF found_spec = None THEN FallbackSpec(lines) ELSE found_spec
  /\ result' = IF found_spec' # None
               THEN [result EXCEPT !.specification = found_spec',
                                   !.confidence = @ + SPEC_BONUS]
               ELSE result
  /\ pc' = "qty"
  /\ UNCHANGED <<raw_text, text, lines, ran, prev>>

\* lines 102-120
QtyPass ==
  /\ pc = "qty"
  /\ \E found_qty \in {FindQty(lines)} :
         result' = IF found_qty # None
                   THEN [result EXCEPT !.quantity = found_qty,
                                       !.confidence = @ + QTY_BONUS]
                   ELSE result
  /\ ran' = Append(ran, "qty")
  /\ pc' = "name"
  /\ UNCHANGED <<raw_text, text, lines, found_spec, prev>>

\* lines 129-147
NamePass ==
  /\ pc = "name"
  /\ \E cleaned \in {Cleaned(FirstOf(lines))} :
         result' = IF cleaned # <<>>
                   THEN [result EXCEPT !.item_name = Some(cleaned),
                                       !.confidence = @ + NAME_BONUS]
                   ELSE [result EXCEPT !.item_name = Some(FirstOf(lines)),
                                       !.confidence = @ + NAME_FALLBACK_BONUS]
  /\ ran' = Append(ran, "name")
  /\ pc' = "clamp"
  /\ UNCHANGED <<raw_text, text, lines, found_spec, prev>>

\* lines 149-154
ClampPass ==
  /\ pc = "clamp"
  /\ result' = [result EXCEPT !.confidence = Clamp01(@)]
  /\ pc' = "done"
  /\ UNCHANGED <<raw_text, text, lines, found_spec, ran, prev>>

\* main(): the record is appended and the next image's text is extracted
NextImage ==
  /\ pc = "done"
  /\ prev' = Some([populated |-> Populated(result),
                   cleaned |-> NameCleaned(lines),
                   confidence |-> result.confidence])
  /\ raw_text' \in Texts(LoopVocabulary, MaxWordsLoop)
  /\ text' = <<>>
  /\ lines' = <<>>
  /\ result' = NoResult
  /\ found_spec' = None
  /\ ran' = <<>>
  /\ pc' = "start"

Extract ==
  \/ Normalize
  \/ PricePass
  \/ CurrencyPass
  \/ SpecScan
  \/ SpecFallback
  \/ QtyPass
  \/ NamePass
  \/ ClampPass

Next == Extract

Spec == Init /\ [][Next]_vars

InitPrice == InitOver(Texts(PriceVocabulary, MaxWordsDeep))
SpecPrice == InitPrice /\ [][Next]_vars

InitCurrency == InitOver(Texts(CurrencyVocabulary, MaxWords))
SpecCurrency == InitCurrency /\ [][Next]_vars

InitQty == InitOver(Texts(QtyVocabulary, MaxWords))
SpecQty == InitQty /\ [][Next]_vars

InitSpec == InitOver(Texts(SpecVocabulary, MaxWordsDeep))
SpecSpec == InitSpec /\ [][Next]_vars

InitName == InitOver(Texts(NameVocabulary, MaxWords))
SpecName == InitName /\ [][Next]_vars

InitLoop == InitOver(Texts(LoopVocabulary, MaxWordsLoop))
NextLoop == Extract \/ NextImage
SpecLoop == InitLoop /\ [][NextLoop]_vars

(* The properties. *)

AllSpace(s) == \A i \in 1..Len(s) : IsSpace(s[i])

AllFields == {"item_name", "specification", "quantity", "unit_price"}

Indicator(b) == IF b THEN 1 ELSE 0

\* C1: the confidence of the record returned is in [0, 1] and is a multiple
\* of 0.01, for every input: empty, white space only, or with lines.
C1_ConfidenceInUnitInterval ==
  pc = "done" =>
    /\ result.confidence >= 0
    /\ result.confidence <= 1000
    /\ result.confidence % 10 = 0

\* every extractor succeeded, the bonuses add up to 1.10, and 1.0 is returned
C1_Witness ==
  /\ pc = "done"
  /\ Populated(result) = AllFields
  /\ Cleaned(lines[1]) # <<>>
  /\ result.confidence = 1000

\* C2: on an empty or white-space-only input no extractor pass runs and the
\* record returned has confidence 0.0, no optional field set, and the
\* trimmed input as source_text.
C2_EmptyInputZeroRecord ==
  (pc # "start" /\ AllSpace(raw_text)) =>
    /\ pc = "done"
    /\ ran = <<>>
    /\ result.confidence = 0
    /\ Populated(result) = {}
    /\ result.source_text = Strip(raw_text)

\* a white-space-only input that is not empty has been answered
C2_Witness == pc = "done" /\ raw_text # <<>> /\ AllSpace(raw_text)

\* C7: with at least one line, confidence is
\* min(1.00, 0.50 + 0.20 [price] + 0.15 [specification] + 0.10 [quantity] + name bonus),
\* the name bonus 0.15 when the cleaned first line is not empty and 0.05
\* otherwise, each bonus whatever the other extractors did; no confidence
\* returned exceeds 1.0.
C7_ConfidenceIsClampedSum ==
  /\ pc = "done" => result.confidence <= 1000
  /\ (pc = "done" /\ lines # <<>>) =>
       LET sum == 500 + 200 * Indicator(result.unit_price # None)
                      + 150 * Indicator(result.specification # None)
                      + 100 * Indicator(result.quantity # None)
                      + (IF Cleaned(lines[1]) # <<>> THEN 150 ELSE 50)
       IN  result.confidence = IF sum < 1000 THEN sum ELSE 1000

\* the quantity bonus alone on top of the fallback name bonus: price and
\* specification not found, the cleaned first line empty
C7_Witness ==
  /\ pc = "done"
  /\ result.quantity # None
  /\ result.unit_price = None
  /\ result.specification = None
  /\ Cleaned(lines[1]) = <<>>
  /\ result.confidence = 650

\* the lines that some pattern of pats matches, by index
LinesMatching(pats, lns) ==
  {i \in 1..Len(lns) : \E k \in 1..Len(pats) : Search(pats[k], lns[i]) # NoMatch}

\* the match of the earliest-listed pattern of pats that matches ln
FirstPatternMatch(pats, ln) ==
  Search(pats[Min({k \in 1..Len(pats) : Search(pats[k], ln) # NoMatch})], ln)

\* C8: the price is decided by the earliest-listed pattern that matches in
\* the earliest line that any price pattern matches, and by nothing after
\* it; unit_price is its group as a number, with the +0.20 bonus, and is
\* unset, with no bonus, when no line matches or the group is no number.
C8_FirstPriceMatchDecides ==
  (pc \notin {"start", "price"} /\ lines # <<>>) =>
    LET hits == LinesMatching(price_patterns, lines)
        ln == lines[Min(hits)]
        group == Group(ln, FirstPatternMatch(price_patterns, ln))
    IN  /\ hits = {} => result.unit_price = None
        /\ hits # {} => result.unit_price = ToFloat(group)
        /\ pc = "currency" =>
             result.confidence = 500 + 200 * Indicator(result.unit_price # None)

\* two lines match and hold different numbers: the first line decided
C8_Witness ==
  /\ pc = "done"
  /\ Len(lines) >= 2
  /\ {1, 2} \subseteq LinesMatching(price_patterns, lines)
  /\ ToFloat(Group(lines[2], FirstPatternMatch(price_patterns, lines[2]))) # result.unit_price
  /\ result.unit_price # None

\* a dollar sign, or the letters u, s, d in a row in either case
HasDollarOrUSD(t) ==
  \E i \in 1..Len(t) :
    \/ t[i] = "$"
    \/ /\ i + 2 <= Len(t)
       /\ t[i] \in {"U", "u"}
       /\ t[i + 1] \in {"S", "s"}
       /\ t[i + 2] \in {"D", "d"}

FirstLineOfText(t) ==
  LET st == Strip(t)
      brk == {i \in 1..Len(st) : IsLineBreak(st[i])}
  IN  Strip(SubSeq(st, 1, IF brk = {} THEN Len(st) ELSE Min(brk) - 1))

\* C9: with at least one line, item_name is set, not empty, and a function of
\* the first line alone: the cleaned first line when that is not empty, the
\* first line as it is otherwise; confidence is then at least 0.55.
C9_ItemNameFromFirstLine ==
  (pc = "done" /\ lines # <<>>) =>
    LET first == FirstLineOfText(raw_text)
        cleaned == Cleaned(first)
    IN  /\ result.item_name = Some(IF cleaned # <<>> THEN cleaned ELSE first)
        /\ result.item_name # None
        /\ result.item_name[1] # <<>>
        /\ result.confidence >= 550

\* the first line was cleaned to something shorter, and a different line follows it
C9_Witness ==
  /\ pc = "done"
  /\ Len(lines) >= 2
  /\ lines[2] # lines[1]
  /\ result.item_name # Some(lines[1])
  /\ result.item_name = Some(Cleaned(lines[1]))

\* C10: when no line matches a main specification pattern the first-line
\* fallback does not match either; specification is the whole first line, in
\* line order, that a main pattern matches, and unset when there is none.
C10_FallbackNeverDecides ==
  /\ (pc = "spec_fallback" /\ found_spec = None) => FallbackSpec(lines) = None
  /\ (pc \in {"qty", "name", "clamp", "done"} /\ lines # <<>>) =>
       LET hits == LinesMatching(spec_patterns, lines)
       IN  result.specification = IF hits = {} THEN None ELSE Some(lines[Min(hits)])

LengthPowerUnits ==
  << <<zh_mi>>, <<"m">>, <<"c", "m">>, <<"m", "m">>, <<zh_hao, zh_mi>>, <<zh_wa>>, <<"W">> >>

\* a digit of s with, after any white space, a length or power unit
DigitBeforeLengthPower(s) ==
  \E i \in 1..Len(s) :
    /\ IsDigit(s[i])
    /\ \E k \in 1..Len(LengthPowerUnits) : LitAt(s, SkipSpace(s, i + 1), LengthPowerUnits[k])

\* the fallback was tried on a first line that holds a number and a unit
\* of length or power, and found nothing
C10_Witness ==
  /\ pc = "qty"
  /\ result.specification = None
  /\ DigitBeforeLengthPower(lines[1])

\* a number followed by a countable unit, as the quantity extractor reads one
HasCountableToken(s) == Search(qty_patterns[1], s) # NoMatch

\* a digit of s with, after any white space, the first character of a
\* length or power unit of the specification patterns
HasDimensionToken(s) ==
  \E i \in 1..Len(s) :
    /\ IsDigit(s[i])
    /\ LET p == SkipSpace(s, i + 1)
       IN  p <= Len(s) /\ s[p] \in {zh_mi, "m", "M", "c", "C", zh_hao, zh_wa, "W", "w"}

\* one of the three labels somewhere in s
HasLabel(s) ==
  \E i \in 1..Len(s) :
    \/ LitAt(s, i, <<zh_xing, zh_hao4>>)
    \/ LitAt(s, i, <<zh_gui, zh_ge2>>)
    \/ LitAt(s, i, <<zh_chi, zh_cun>>)

\* C4, as claimed: the value stored in specification never holds a number
\* followed by a countable unit.
C4_NoCountableTokenInSpecification ==
  (pc = "done" /\ result.specification # None) =>
    ~HasCountableToken(result.specification[1])

\* C4, amended: a number followed by a countable unit does not make a line
\* the specification; the line stored holds a number before a length or
\* power unit, or a label.
C4_SpecificationHasDimensionOrLabel ==
  (pc = "done" /\ result.specification # None) =>
    \/ HasDimensionToken(result.specification[1])
    \/ HasLabel(result.specification[1])

\* the specification stored is a line that also holds a number and countable unit
C4_Witness ==
  /\ pc = "done"
  /\ result.specification # None
  /\ HasCountableToken(result.specification[1])

\* the end of the whole number \d+(?:\.\d+)? that starts at p
NumberEnd(s, p) == NumEnds(s, p)[1]

\* C3, as claimed: quantity is never taken from a number whose unit, right
\* after it or after white space, is a unit of length or power.
C3_QuantityNeverFromLengthOrPower ==
  (pc = "done" /\ result.quantity # None) =>
    LET ln == lines[Min(LinesMatching(qty_patterns, lines))]
        m == FirstPatternMatch(qty_patterns, ln)
        unit == SkipSpace(ln, NumberEnd(ln, m.from))
    IN  \A k \in 1..Len(LengthPowerUnits) : ~LitAt(ln, unit, LengthPowerUnits[k])

\* C5, as claimed: of two records, the one with at least as many optional
\* fields set has at least the confidence of the other.
C5_MonotonicInFieldCount ==
  (pc = "done" /\ prev # None) =>
    (Cardinality(Populated(result)) >= Cardinality(prev[1].populated)
       => result.confidence >= prev[1].confidence)

\* C5, amended: of two records, the one that has every optional field set
\* that the other has set, and a cleaned item name when the other has one,
\* has at least the confidence of the other.
C5_MonotonicInFieldSet ==
  (pc = "done" /\ prev # None) =>
    ((prev[1].populated \subseteq Populated(result)
        /\ (prev[1].cleaned => NameCleaned(lines)))
       => result.confidence >= prev[1].confidence)

\* a record after one with two fields fewer and a fallback name, and more confidence
C5_Witness ==
  /\ pc = "done"
  /\ prev # None
  /\ prev[1].populated # {}
  /\ ~prev[1].cleaned
  /\ NameCleaned(lines)
  /\ prev[1].populated \subseteq Populated(result)
  /\ Cardinality(Populated(result) \ prev[1].populated) >= 2
  /\ result.confidence > prev[1].confidence

====
